---- MODULE Spec2Model ----
(***************************************************************************)
(* Model of the marketplace backend: the persistent rows (Product, Sale,   *)
(* Bucket, BucketProduct, Order, OrderItem), the bucket handlers and the   *)
(* checkout handler create_order, run by concurrent requests against one   *)
(* relational store.                                                       *)
(*                                                                         *)
(* Money is kept as integers.  A price is a number of cents (2 decimal     *)
(* places), a discount a number of hundredths (2 decimal places), and the  *)
(* product price * (1 - discount) a number of 1/10000 (4 decimal places),  *)
(* exactly as Decimal arithmetic keeps it.  A DecimalField with            *)
(* decimal_places=2 rounds such a value to cents when the row is written.  *)
(*                                                                         *)
(* The store is modelled at READ COMMITTED: a request's writes stay in     *)
(* its own variables until its transaction commits, an UPDATE of a row     *)
(* waits for another transaction that has updated the same row, and a      *)
(* statement executed outside transaction.atomic() is its own transaction. *)
(***************************************************************************)
EXTENDS Integers, Sequences, FiniteSets, TLC

(* ---------------------------- universe ---------------------------------- *)

Users == {"u1", "u2"}

Products == {"A", "B"}

\* an id that names no Product row
NoProduct == "none"

Groups == {"g1"}

Categories == {"c1", "c2"}

Sales == {"s1", "s2"}

Requests == {"r1", "r2"}

\* request.user of a request that carries no credentials
Anonymous == "anonymous"

\* add requests in flight at once
AddRequests == {"a1", "a2"}

\* announce_sales tasks that workers run at once
Tasks == {"t1", "t2"}

\* request.data["number"] as the parser hands it to the view: a JSON integer,
\* a JSON number with a fraction (value in tenths), a JSON number too large
\* for a float, a string of digits, any other string, null, or no such key
NumberKinds == {"int", "float", "inf", "digits", "str", "null", "missing"}

Integer(n) == [kind |-> "int", value |-> n]

Float(tenths) == [kind |-> "float", value |-> tenths]

Infinite == [kind |-> "inf", value |-> 0]

Digits(n) == [kind |-> "digits", value |-> n]

Text == [kind |-> "str", value |-> 0]

Null == [kind |-> "null", value |-> 0]

Missing == [kind |-> "missing", value |-> 0]

\* the parts split(",") makes of a category parameter: the ids of the two
\* Category rows, an id of no Category row, and a string that is no integer
CategoryParts == {Digits(1), Digits(2), Digits(3), Text}

\* request.query_params.get("category"): not given (or empty), or a string
\* that begins with "-" or not, and its parts
NoCategory == [given |-> FALSE, minus |-> FALSE, parts |-> <<>>]

CategoryParams(len) ==
    {NoCategory}
        \cup [given : {TRUE}, minus : BOOLEAN,
              parts : UNION {[1..n -> CategoryParts] : n \in 1..len}]

\* a key that request.data does not have
Absent == "absent"

\* the email of a registration: two addresses, a string that is no address,
\* or none
Emails == {"ann@shop.example", "bob@shop.example"}

\* request.data of POST registration/
RegistrationData ==
    [first_name : {"Ann", Absent}, second_name : {"Lee", Absent},
     email : Emails \cup {"ann", Absent}, password : {"secret", Absent}]

Names == {"Laptop", "Phone"}

\* prices in cents; 5 cents at a 10% discount is 4.5 cents
Prices == {3, 5}

\* discounts in hundredths
Discounts == {10, 50}

RoundingModes == {"half_even", "half_up"}

\* Spec: concurrent checkouts of two users.  Largest number a request may
\* carry, and largest quantity a bucket line may grow to
MaxNumber == 1

\* Spec: available_items of every product at the start
InitStock == 1

\* Spec: create_order calls in one behaviour
MaxCalls == 2

\* SpecOne: one shopper, larger quantities, and the admin editing the
\* catalog.  Largest number a request may carry and a line may grow to
MaxNumberOne == 2

\* SpecOne: available_items of every product at the start
InitStockOne == 2

\* SpecOne: create_order calls in one behaviour
MaxCallsOne == 2

\* SpecOne: admin edits in one behaviour
MaxEdits == 1

\* SpecDiscount: the last instant timezone.now() reaches
MaxNow == 2

\* SpecBucket: one shopper's bucket handlers with their responses.  Largest
\* integer a request may carry
MaxNumberBucket == 2

\* SpecBucket: largest quantity a bucket line may grow to
MaxLineBucket == 3

\* SpecBucket and SpecAdds: available_items of every product
StockBucket == 2

\* SpecAdds: add requests of one shopper in flight together.  Largest number
\* an add request may carry
MaxNumberAdds == 2

\* SpecAdds: largest quantity a bucket line may grow to
MaxLineAdds == 3

\* SpecShared: two shoppers' bucket handlers with their responses.  Largest
\* integer a request may carry
MaxNumberShared == 1

\* SpecShared: largest quantity a bucket line may grow to
MaxLineShared == 2

\* SpecList: most ids a category parameter may carry
MaxIds == 2

\* SpecAnnounce: runs of the announce_sales task in one behaviour
MaxRuns == 2

VARIABLES
    buckets,          \* users that have a Bucket row
    bucket_products,  \* per bucket, its BucketProduct rows in primary-key order
    products,         \* Product rows: name, price, available_items
    product_categories, \* categories of each product
    sales,            \* Sale rows
    user_groups,      \* groups of each user
    now,              \* timezone.now()
    orders,           \* committed Order rows, each with its OrderItem rows
    rounding,         \* how the store rounds a decimal to the column's scale
    pc,               \* per request: where create_order stands
    req_user,         \* per request: request.user
    snap,             \* per request: the evaluated bucket_products queryset
    order_items,      \* per request: the OrderItem objects built so far
    order_total,      \* per request: order_total
    resp,             \* per request: the last response
    logged,           \* per request: the exception logger.error was last given
    calls,            \* create_order calls so far
    edits,            \* admin edits so far
    quote,            \* the last discount the product list has shown
    bucket_call,      \* the last call of a bucket handler and its response
    recording,        \* whether the calls of the bucket handlers are recorded
    adding,           \* per add request in flight: what it has read
    listing,          \* the last call of the product list and its response
    accounts,         \* usernames of the User rows made by registration
    tokens,           \* usernames of the User rows that have a Token row
    registration,     \* the last call of registration_view and its response
    announcement_date, \* Sale.announcement_date of each sale
    was_announced,    \* Sale.was_announced of each sale
    mail_users,       \* emails of the User rows that are active and not staff
    csv_files,        \* the announcement files written, each the set of its rows
    task,             \* per announce_sales task: what it has read and has left to do
    runs              \* announce_sales runs so far

vars == <<buckets, bucket_products, products, product_categories, sales,
          user_groups, now, orders, rounding, pc, req_user, snap,
          order_items, order_total, resp, logged, calls, edits, quote,
          bucket_call, recording, adding, listing, accounts, tokens,
          registration, announcement_date, was_announced, mail_users,
          csv_files, task, runs>>

\* everything the store holds
db == <<buckets, bucket_products, products, product_categories, sales,
        user_groups, orders>>

catalog == <<product_categories, sales, user_groups, now, rounding>>

local == <<pc, req_user, snap, order_items, order_total, resp, logged, calls>>

\* what the handlers apart from the bucket and the checkout have answered
registered == <<accounts, tokens, registration>>

announced == <<announcement_date, was_announced, mail_users, csv_files, task, runs>>

elsewhere == <<listing, registered, announced>>

\* what the product list and the bucket handlers have answered, and the add
\* requests in flight
observed == <<quote, bucket_call, recording, adding, elsewhere>>

\* the shape of the state: the rows of models.py and the locals of create_order
TypeOK ==
    /\ buckets \subseteq Users
    /\ \A u \in Users : \A i \in 1..Len(bucket_products[u]) :
           /\ bucket_products[u][i].product \in Products
           /\ bucket_products[u][i].number \in Int
    /\ \A p \in Products :
           /\ products[p].name \in Names
           /\ products[p].price \in Prices
           /\ products[p].available_items \in Int
    /\ \A s \in Sales :
           /\ sales[s].discount \in 0..100
           /\ sales[s].products \subseteq Products
           /\ sales[s].categories \subseteq Categories
           /\ sales[s].allowed_users \subseteq Users
           /\ sales[s].allowed_groups \subseteq Groups
    /\ \A p \in Products : product_categories[p] \subseteq Categories
    /\ \A u \in Users : user_groups[u] \subseteq Groups
    /\ now \in Nat
    /\ rounding \in RoundingModes
    /\ \A k \in 1..Len(orders) : orders[k].user \in Users /\ orders[k].total \in Nat
    /\ \A r \in Requests :
           /\ pc[r] \in {"idle", "get_bucket", "exists", "atomic", "items"}
           /\ req_user[r] \in Users
           /\ Len(order_items[r]) <= Len(snap[r])
           /\ order_total[r] \in Nat
           /\ resp[r] \in {"none", "created", "no_bucket", "empty_bucket",
                           "insufficient_stock", "server_error"}
           /\ logged[r] \in {"none", "IntegrityError", "OperationalError"}
    /\ calls \in Nat
    /\ edits \in Nat
    /\ quote.product \in Products \cup {NoProduct}
    /\ quote.user \in Users \cup {Anonymous}
    /\ quote.discount \in 0..100
    /\ bucket_call.handler \in {"none", "add_to_bucket", "bucket_view",
                               "bucket_product_detail_post",
                               "bucket_product_detail_delete", "viewset_update"}
    /\ bucket_call.user \in Users
    /\ bucket_call.id \in Products \cup {NoProduct}
    /\ bucket_call.number.kind \in NumberKinds
    /\ bucket_call.status \in {0, 200, 204, 400, 404, 500}
    /\ bucket_call.total \in Nat \cup {-1}
    /\ recording \in BOOLEAN
    /\ \A a \in AddRequests :
           /\ adding[a].pc \in {"idle", "save"}
           /\ adding[a].user \in Users
           /\ adding[a].product \in Products
           /\ adding[a].number \in Nat
           /\ adding[a].loaded \in Nat
    /\ listing.status \in {0, 200, 400}
    /\ \A i \in 1..Len(listing.results) : listing.results[i] \in Products
    /\ accounts \subseteq Emails
    /\ tokens \subseteq accounts
    /\ registration.data \in RegistrationData
    /\ registration.status \in {0, 201, 400, 500}
    /\ registration.token \in Emails \cup {Absent}
    /\ \A s \in Sales : announcement_date[s] \in Nat /\ was_announced[s] \in BOOLEAN
    /\ mail_users \subseteq Emails
    /\ \A k \in 1..Len(csv_files) : \A row \in csv_files[k] :
           row.email \in Emails /\ row.sale \in Sales
    /\ \A t \in Tasks :
           /\ task[t].pc \in {"idle", "write"}
           /\ \A i \in 1..Len(task[t].sales_to_announce) :
                  task[t].sales_to_announce[i] \in Sales
           /\ task[t].all_users \subseteq Emails
           /\ task[t].file \in 0..Len(csv_files)
    /\ runs \in Nat

(* ---------------------------- helpers ----------------------------------- *)

Max(S) == CHOOSE x \in S : \A y \in S : y <= x

\* index of the row of product p in rows, 0 when there is none
RowIndex(rows, p) ==
    IF \E i \in 1..Len(rows) : rows[i].product = p
    THEN CHOOSE i \in 1..Len(rows) : rows[i].product = p
    ELSE 0

RemoveAt(s, i) == SubSeq(s, 1, i - 1) \o SubSeq(s, i + 1, Len(s))

\* no bucket handler has been called yet
NoCall ==
    [handler |-> "none", user |-> "u1", id |-> NoProduct, number |-> Missing,
     status |-> 0, total |-> -1]

\* an add request slot with no request in it
NotAdding == [pc |-> "idle", user |-> "u1", product |-> "A", number |-> 0, loaded |-> 0]

\* the product list has not been called yet
NotListed == [category |-> NoCategory, status |-> 0, results |-> <<>>]

\* registration_view has not been called yet
NotRegistered ==
    [data |-> [first_name |-> Absent, second_name |-> Absent, email |-> Absent,
               password |-> Absent],
     status |-> 0, token |-> Absent]

\* a worker that runs no announce_sales task
NotRunning == [pc |-> "idle", sales_to_announce |-> <<>>, all_users |-> {}, file |-> 0]

\* HTTP status of a create_order response
Status(r) ==
    CASE r = "created" -> 201
      [] r = "no_bucket" -> 400
      [] r = "empty_bucket" -> 400
      [] r = "insufficient_stock" -> 400
      [] r = "server_error" -> 500
      [] OTHER -> 0

(* ---------------------------- decimals ---------------------------------- *)

\* a value in 1/10000 written to a column with decimal_places=2: cents
RoundStore(x, mode) ==
    LET q == x \div 100
        m == x % 100
    IN  IF m < 50 THEN q
        ELSE IF m > 50 THEN q + 1
        ELSE IF mode = "half_up" THEN q + 1
        ELSE IF q % 2 = 0 THEN q ELSE q + 1

(* ---------------------------- discount ---------------------------------- *)

\* mutant: an anonymous requester gets every active sale on the product
applicable_sales_unfiltered(product, user) ==
    {s \in Sales :
        /\ product \in sales[s].products
        /\ sales[s].start_date <= now
        /\ sales[s].end_date >= now
        /\ \/ user \notin Users
           \/ user \in sales[s].allowed_users
           \/ sales[s].allowed_groups \cap user_groups[user] # {}
           \/ (sales[s].allowed_users = {} /\ sales[s].allowed_groups = {})}

\* mutant: the requester's groups are not looked at
applicable_sales_users_only(product, user) ==
    {s \in Sales :
        /\ product \in sales[s].products
        /\ sales[s].start_date <= now
        /\ sales[s].end_date >= now
        /\ IF user \in Users
           THEN \/ user \in sales[s].allowed_users
                \/ (sales[s].allowed_users = {} /\ sales[s].allowed_groups = {})
           ELSE sales[s].allowed_users = {} /\ sales[s].allowed_groups = {}}

\* Sale rows a requester may use: self.sales are the sales that list the
\* product itself
applicable_sales(product, user) ==
    {s \in Sales :
        /\ product \in sales[s].products
        /\ sales[s].start_date <= now
        /\ sales[s].end_date >= now
        /\ IF user \in Users
           THEN \/ user \in sales[s].allowed_users
                \/ sales[s].allowed_groups \cap user_groups[user] # {}
                \/ (sales[s].allowed_users = {} /\ sales[s].allowed_groups = {})
           ELSE sales[s].allowed_users = {} /\ sales[s].allowed_groups = {}}

get_best_discount(product, user) ==
    IF applicable_sales(product, user) # {}
    THEN Max({sales[s].discount : s \in applicable_sales(product, user)})
    ELSE 0

(* ---------------------------- initial state ----------------------------- *)

InitSales ==
    [s \in Sales |->
        IF s = "s1"
        THEN [discount |-> 10, start_date |-> 0, end_date |-> 2,
              products |-> {"A", "B"}, categories |-> {},
              allowed_users |-> {}, allowed_groups |-> {}]
        ELSE [discount |-> 50, start_date |-> 1, end_date |-> 1,
              products |-> {"A"}, categories |-> {"c1"},
              allowed_users |-> {"u2"}, allowed_groups |-> {}]]

InitProducts(stock) ==
    [p \in Products |->
        [name |-> IF p = "A" THEN "Laptop" ELSE "Phone",
         price |-> IF p = "A" THEN 5 ELSE 3,
         available_items |-> stock]]

InitFrom(stock, record) ==
    /\ buckets = {}
    /\ bucket_products = [u \in Users |-> <<>>]
    /\ products = InitProducts(stock)
    /\ product_categories = [p \in Products |-> {"c1"}]
    /\ sales = InitSales
    /\ user_groups = [u \in Users |-> {}]
    /\ now = 1
    /\ orders = <<>>
    /\ rounding \in RoundingModes
    /\ pc = [r \in Requests |-> "idle"]
    /\ req_user = [r \in Requests |-> "u1"]
    /\ snap = [r \in Requests |-> <<>>]
    /\ order_items = [r \in Requests |-> <<>>]
    /\ order_total = [r \in Requests |-> 0]
    /\ resp = [r \in Requests |-> "none"]
    /\ logged = [r \in Requests |-> "none"]
    /\ calls = 0
    /\ edits = 0
    /\ quote = [product |-> NoProduct, user |-> Anonymous, discount |-> 0]
    /\ bucket_call = NoCall
    /\ recording = record
    /\ adding = [a \in AddRequests |-> NotAdding]
    /\ listing = NotListed
    /\ accounts = {}
    /\ tokens = {}
    /\ registration = NotRegistered
    /\ announcement_date = [s \in Sales |-> 0]
    /\ was_announced = [s \in Sales |-> FALSE]
    /\ mail_users = {}
    /\ csv_files = <<>>
    /\ task = [t \in Tasks |-> NotRunning]
    /\ runs = 0

\* the bucket handlers' calls are not recorded
InitWith(stock) == InitFrom(stock, FALSE)

Init == InitWith(InitStock)

InitOne == InitWith(InitStockOne)

\* the bucket handlers' calls are recorded
InitBucket == InitFrom(StockBucket, TRUE)

InitAdds == InitWith(StockBucket)

SaleStarts == {0, 1}

SaleEnds == {1, 2}

\* the first sale as the admin may have set it up: any discount and window,
\* on product A or not, on the category or not, open or closed to a user, a
\* group or both
FirstSales ==
    [discount : Discounts, start_date : SaleStarts, end_date : SaleEnds,
     products : {{}, {"A"}}, categories : {{}, {"c1"}},
     allowed_users : {{}, {"u1"}}, allowed_groups : SUBSET Groups]

\* the second sale: 30%, at instant 1 only, on product A or not, on the
\* category or not, open or closed to one user
SecondSales ==
    [discount : {30}, start_date : {1}, end_date : {1},
     products : {{}, {"A"}}, categories : {{}, {"c1"}},
     allowed_users : {{}, {"u2"}}, allowed_groups : {{}}]

\* the catalog with each product in any of the categories
InitList ==
    /\ buckets = {}
    /\ bucket_products = [u \in Users |-> <<>>]
    /\ products = InitProducts(InitStock)
    /\ product_categories \in [Products -> SUBSET Categories]
    /\ sales = InitSales
    /\ user_groups = [u \in Users |-> {}]
    /\ now = 1
    /\ orders = <<>>
    /\ rounding = "half_even"
    /\ pc = [r \in Requests |-> "idle"]
    /\ req_user = [r \in Requests |-> "u1"]
    /\ snap = [r \in Requests |-> <<>>]
    /\ order_items = [r \in Requests |-> <<>>]
    /\ order_total = [r \in Requests |-> 0]
    /\ resp = [r \in Requests |-> "none"]
    /\ logged = [r \in Requests |-> "none"]
    /\ calls = 0
    /\ edits = 0
    /\ quote = [product |-> NoProduct, user |-> Anonymous, discount |-> 0]
    /\ bucket_call = NoCall
    /\ recording = FALSE
    /\ adding = [a \in AddRequests |-> NotAdding]
    /\ listing = NotListed
    /\ accounts = {}
    /\ tokens = {}
    /\ registration = NotRegistered
    /\ announcement_date = [s \in Sales |-> 0]
    /\ was_announced = [s \in Sales |-> FALSE]
    /\ mail_users = {}
    /\ csv_files = <<>>
    /\ task = [t \in Tasks |-> NotRunning]
    /\ runs = 0

\* sales with every announcement date, none announced, and no user yet
InitAnnounce ==
    /\ buckets = {}
    /\ bucket_products = [u \in Users |-> <<>>]
    /\ products = InitProducts(InitStock)
    /\ product_categories = [p \in Products |-> {"c1"}]
    /\ sales = InitSales
    /\ user_groups = [u \in Users |-> {}]
    /\ now = 0
    /\ orders = <<>>
    /\ rounding = "half_even"
    /\ pc = [r \in Requests |-> "idle"]
    /\ req_user = [r \in Requests |-> "u1"]
    /\ snap = [r \in Requests |-> <<>>]
    /\ order_items = [r \in Requests |-> <<>>]
    /\ order_total = [r \in Requests |-> 0]
    /\ resp = [r \in Requests |-> "none"]
    /\ logged = [r \in Requests |-> "none"]
    /\ calls = 0
    /\ edits = 0
    /\ quote = [product |-> NoProduct, user |-> Anonymous, discount |-> 0]
    /\ bucket_call = NoCall
    /\ recording = FALSE
    /\ adding = [a \in AddRequests |-> NotAdding]
    /\ listing = NotListed
    /\ accounts = {}
    /\ tokens = {}
    /\ registration = NotRegistered
    /\ announcement_date \in [Sales -> 0..MaxNow]
    /\ was_announced = [s \in Sales |-> FALSE]
    /\ mail_users = {}
    /\ csv_files = <<>>
    /\ task = [t \in Tasks |-> NotRunning]
    /\ runs = 0

\* the catalog with sales set up in every such way; product A is in no
\* category and product B is in the one category
InitDiscount ==
    /\ buckets = {}
    /\ bucket_products = [u \in Users |-> <<>>]
    /\ products = InitProducts(InitStock)
    /\ product_categories = [p \in Products |-> IF p = "B" THEN {"c1"} ELSE {}]
    /\ \E first \in FirstSales, second \in SecondSales :
           sales = [s \in Sales |-> IF s = "s1" THEN first ELSE second]
    /\ \E groups \in SUBSET Groups :
           user_groups = [u \in Users |-> IF u = "u1" THEN groups ELSE {}]
    /\ now = 0
    /\ orders = <<>>
    /\ rounding = "half_even"
    /\ pc = [r \in Requests |-> "idle"]
    /\ req_user = [r \in Requests |-> "u1"]
    /\ snap = [r \in Requests |-> <<>>]
    /\ order_items = [r \in Requests |-> <<>>]
    /\ order_total = [r \in Requests |-> 0]
    /\ resp = [r \in Requests |-> "none"]
    /\ logged = [r \in Requests |-> "none"]
    /\ calls = 0
    /\ edits = 0
    /\ quote = [product |-> NoProduct, user |-> Anonymous, discount |-> 0]
    /\ bucket_call = NoCall
    /\ recording = FALSE
    /\ adding = [a \in AddRequests |-> NotAdding]
    /\ listing = NotListed
    /\ accounts = {}
    /\ tokens = {}
    /\ registration = NotRegistered
    /\ announcement_date = [s \in Sales |-> 0]
    /\ was_announced = [s \in Sales |-> FALSE]
    /\ mail_users = {}
    /\ csv_files = <<>>
    /\ task = [t \in Tasks |-> NotRunning]
    /\ runs = 0

(* ---------------------------- bucket handlers --------------------------- *)

\* Bucket.objects.get_or_create(user=...)
get_or_create_bucket(user) == buckets \cup {user}

\* request.data.get("number", default)
data_get(number, default) == IF number.kind = "missing" THEN default ELSE number

\* int(number): the integer, or the exception int() raises.  A float is cut
\* towards zero, a string of digits is read, any other string is a
\* ValueError, None a TypeError and an infinite float an OverflowError
int(number) ==
    CASE number.kind \in {"int", "digits"} -> [error |-> "none", value |-> number.value]
      [] number.kind = "float" ->
             [error |-> "none",
              value |-> IF number.value >= 0 THEN number.value \div 10
                        ELSE -((-number.value) \div 10)]
      [] number.kind = "inf" -> [error |-> "OverflowError", value |-> 0]
      [] number.kind = "str" -> [error |-> "ValueError", value |-> 0]
      [] OTHER -> [error |-> "TypeError", value |-> 0]

\* mutant: zero passes the check of the number
number_status_allows_zero(parsed) ==
    IF parsed.error = "OverflowError" THEN 500
    ELSE IF parsed.error # "none" THEN 400
    ELSE IF parsed.value < 0 THEN 400
    ELSE 200

\* the status the check of the number ends the request with, 200 when the
\* number passes: 400 for a ValueError, a TypeError and a number <= 0; an
\* OverflowError is not caught with them and ends the request with 500
number_status(parsed) ==
    IF parsed.error = "OverflowError" THEN 500
    ELSE IF parsed.error # "none" THEN 400
    ELSE IF parsed.value <= 0 THEN 400
    ELSE 200

\* mutant: the total is taken at the prices after the public discount
RECURSIVE bucket_total_discounted(_)
bucket_total_discounted(rows) ==
    IF rows = <<>> THEN 0
    ELSE RoundStore(products[Head(rows).product].price
                        * (100 - get_best_discount(Head(rows).product, Anonymous))
                        * Head(rows).number, "half_up")
         + bucket_total_discounted(Tail(rows))

\* sum(item.product.price * item.number for item in bucketproduct_set.all()),
\* in cents; the prices have 2 decimal places, so "{total:.2f}" shows it as
\* it is
RECURSIVE bucket_total(_)
bucket_total(rows) ==
    IF rows = <<>> THEN 0
    ELSE products[Head(rows).product].price * Head(rows).number
         + bucket_total(Tail(rows))

\* return Response(...): the call and its response, total -1 when the body
\* has no total
answer(handler, user, id, number, status, total) ==
    bucket_call' =
        IF recording
        THEN [handler |-> handler, user |-> user, id |-> id, number |-> number,
              status |-> status, total |-> total]
        ELSE bucket_call

\* mutant: no unique constraint on (product, bucket)
not_unique(rows, product) == FALSE

\* unique_together = ("product", "bucket"): whether the INSERT of a row for
\* the product is rejected
unique_violation(rows, product) == RowIndex(rows, product) # 0

\* rows after BucketProduct.objects.get_or_create(bucket, product) and the
\* increment of a row that was not created, for a request whose first read
\* found no row (loaded = 0) or a row with number loaded.  A created row
\* keeps the field's default number.  An INSERT the unique constraint
\* rejects makes get_or_create read the row again, and the increment is then
\* of the number read
rows_after_save(rows, product, number, loaded) ==
    IF loaded = 0 /\ ~unique_violation(rows, product)
    THEN Append(rows, [product |-> product, number |-> 1])
    ELSE LET i == RowIndex(rows, product)
         IN  [rows EXCEPT ![i].number =
                 (IF loaded = 0 THEN rows[i].number ELSE loaded) + number]

\* the same with no other request between the read and the write
rows_after_add(rows, product, number) ==
    rows_after_save(rows, product, number,
                    IF RowIndex(rows, product) = 0 THEN 0
                    ELSE rows[RowIndex(rows, product)].number)

\* the status of POST bucket/add/: the number is checked before the product
\* is looked up
add_to_bucket_status(id, number) ==
    IF number_status(int(data_get(number, Integer(1)))) # 200
    THEN number_status(int(data_get(number, Integer(1))))
    ELSE IF id \notin Products THEN 404 ELSE 200

\* POST bucket/add/ and BucketProductViewSet.create, with no other request
\* between its read and its write
add_to_bucket(user, id, number) ==
    /\ IF add_to_bucket_status(id, number) = 200
       THEN /\ buckets' = get_or_create_bucket(user)
            /\ bucket_products' =
                   [bucket_products EXCEPT
                       ![user] = rows_after_add(@, id,
                                                int(data_get(number, Integer(1))).value)]
            /\ answer("add_to_bucket", user, id, number, 200,
                      bucket_total(bucket_products'[user]))
       ELSE /\ UNCHANGED <<buckets, bucket_products>>
            /\ answer("add_to_bucket", user, id, number,
                      add_to_bucket_status(id, number), -1)
    /\ UNCHANGED <<products, orders, catalog, local, edits, quote, recording, adding, elsewhere>>

\* POST bucket/add/ up to the first read of get_or_create: the number and
\* the product are checked, and the request reads whether the bucket has a
\* row for the product and with what number
add_to_bucket_get(a, user, id, number) ==
    /\ adding[a].pc = "idle"
    /\ IF add_to_bucket_status(id, number) = 200
       THEN /\ adding' =
                   [adding EXCEPT ![a] =
                       [pc |-> "save", user |-> user, product |-> id,
                        number |-> int(data_get(number, Integer(1))).value,
                        loaded |-> IF RowIndex(bucket_products[user], id) = 0 THEN 0
                                   ELSE bucket_products[user][
                                            RowIndex(bucket_products[user], id)].number]]
            /\ UNCHANGED bucket_call
       ELSE /\ UNCHANGED adding
            /\ answer("add_to_bucket", user, id, number,
                      add_to_bucket_status(id, number), -1)
    /\ UNCHANGED <<buckets, bucket_products, products, orders, catalog, local,
                   edits, quote, recording, elsewhere>>

\* POST bucket/add/ from the write to the response: the INSERT or the save()
\* of the incremented number, the commit, and the total
add_to_bucket_save(a) ==
    /\ adding[a].pc = "save"
    /\ buckets' = get_or_create_bucket(adding[a].user)
    /\ bucket_products' =
           [bucket_products EXCEPT
               ![adding[a].user] =
                   rows_after_save(@, adding[a].product, adding[a].number,
                                   adding[a].loaded)]
    /\ adding' = [adding EXCEPT ![a] = NotAdding]
    /\ answer("add_to_bucket", adding[a].user, adding[a].product,
              Integer(adding[a].number), 200,
              bucket_total(bucket_products'[adding[a].user]))
    /\ UNCHANGED <<products, orders, catalog, local, edits, quote, recording, elsewhere>>

\* GET bucket/
bucket_view(user) ==
    /\ buckets' = get_or_create_bucket(user)
    /\ answer("bucket_view", user, NoProduct, Missing, 200,
              bucket_total(bucket_products[user]))
    /\ UNCHANGED <<bucket_products, products, orders, catalog, local, edits,
                   quote, recording, adding, elsewhere>>

\* mutant: the number is checked before the row is looked up
bucket_product_detail_status_number_first(rows, product_id, number) ==
    IF number_status(int(data_get(number, Null))) # 200
    THEN number_status(int(data_get(number, Null)))
    ELSE IF RowIndex(rows, product_id) = 0 THEN 404 ELSE 200

\* the status of POST bucket/<id>/update/: the row is looked up before the
\* number is checked; an OverflowError is caught by the outer handler
bucket_product_detail_status(rows, product_id, number) ==
    IF RowIndex(rows, product_id) = 0 THEN 404
    ELSE number_status(int(data_get(number, Null)))

\* mutant: the number is added to the line's quantity
bucket_product_detail_post_increment(user, product_id, number) ==
    /\ buckets' = get_or_create_bucket(user)
    /\ IF bucket_product_detail_status(bucket_products[user], product_id, number) = 200
       THEN /\ bucket_products' =
                   [bucket_products EXCEPT
                       ![user][RowIndex(bucket_products[user], product_id)].number =
                           @ + int(data_get(number, Null)).value]
            /\ answer("bucket_product_detail_post", user, product_id, number, 200,
                      bucket_total(bucket_products'[user]))
       ELSE /\ UNCHANGED bucket_products
            /\ answer("bucket_product_detail_post", user, product_id, number,
                      bucket_product_detail_status(bucket_products[user],
                                                   product_id, number), -1)
    /\ UNCHANGED <<products, orders, catalog, local, edits, quote, recording, adding, elsewhere>>

\* POST bucket/<id>/update/
bucket_product_detail_post(user, product_id, number) ==
    /\ buckets' = get_or_create_bucket(user)
    /\ IF bucket_product_detail_status(bucket_products[user], product_id, number) = 200
       THEN /\ bucket_products' =
                   [bucket_products EXCEPT
                       ![user][RowIndex(bucket_products[user], product_id)].number =
                           int(data_get(number, Null)).value]
            /\ answer("bucket_product_detail_post", user, product_id, number, 200,
                      bucket_total(bucket_products'[user]))
       ELSE /\ UNCHANGED bucket_products
            /\ answer("bucket_product_detail_post", user, product_id, number,
                      bucket_product_detail_status(bucket_products[user],
                                                   product_id, number), -1)
    /\ UNCHANGED <<products, orders, catalog, local, edits, quote, recording, adding, elsewhere>>

\* mutant: every line of the bucket is deleted
bucket_product_detail_delete_all(user, product_id) ==
    /\ buckets' = get_or_create_bucket(user)
    /\ IF RowIndex(bucket_products[user], product_id) = 0
       THEN /\ UNCHANGED bucket_products
            /\ answer("bucket_product_detail_delete", user, product_id, Missing, 404, -1)
       ELSE /\ bucket_products' = [bucket_products EXCEPT ![user] = <<>>]
            /\ answer("bucket_product_detail_delete", user, product_id, Missing, 204, -1)
    /\ UNCHANGED <<products, orders, catalog, local, edits, quote, recording, adding, elsewhere>>

\* DELETE bucket/<id>/ and BucketProductViewSet.destroy
bucket_product_detail_delete(user, product_id) ==
    /\ buckets' = get_or_create_bucket(user)
    /\ IF RowIndex(bucket_products[user], product_id) = 0
       THEN /\ UNCHANGED bucket_products
            /\ answer("bucket_product_detail_delete", user, product_id, Missing, 404, -1)
       ELSE /\ bucket_products' =
                   [bucket_products EXCEPT
                       ![user] = RemoveAt(@, RowIndex(bucket_products[user], product_id))]
            /\ answer("bucket_product_detail_delete", user, product_id, Missing, 204, -1)
    /\ UNCHANGED <<products, orders, catalog, local, edits, quote, recording, adding, elsewhere>>

\* the status of BucketProductViewSet.update: the number is checked first,
\* then the row is looked up, then the number is held against the stock
viewset_update_status(rows, pk, number) ==
    IF number_status(int(data_get(number, Null))) # 200
    THEN number_status(int(data_get(number, Null)))
    ELSE IF RowIndex(rows, pk) = 0 THEN 404
    ELSE IF int(data_get(number, Null)).value > products[pk].available_items THEN 400
    ELSE 200

\* BucketProductViewSet.update: the bucket row made by get_or_create is rolled
\* back with the transaction when the line is not found
viewset_update(user, pk, number) ==
    /\ IF viewset_update_status(bucket_products[user], pk, number) = 200
       THEN /\ buckets' = get_or_create_bucket(user)
            /\ bucket_products' =
                   [bucket_products EXCEPT
                       ![user][RowIndex(bucket_products[user], pk)].number =
                           int(data_get(number, Null)).value]
            /\ answer("viewset_update", user, pk, number, 200,
                      bucket_total(bucket_products'[user]))
       ELSE /\ UNCHANGED <<buckets, bucket_products>>
            /\ answer("viewset_update", user, pk, number,
                      viewset_update_status(bucket_products[user], pk, number), -1)
    /\ UNCHANGED <<products, orders, catalog, local, edits, quote, recording, adding, elsewhere>>

(* ---------------------------- checkout ---------------------------------- *)

\* requests whose open transaction has updated the row of product p and so
\* hold its row lock until they commit or roll back
row_lock(p) ==
    {r \in Requests :
        pc[r] = "items" /\ \E i \in 1..Len(order_items[r]) : order_items[r][i].product = p}

\* the bucket_products queryset with select_related("product"), evaluated
\* once and cached: each line with its product as the store holds it then
evaluate(rows) ==
    [i \in 1..Len(rows) |->
        [product |-> rows[i].product,
         number |-> rows[i].number,
         name |-> products[rows[i].product].name,
         price |-> products[rows[i].product].price,
         available_items |-> products[rows[i].product].available_items]]

\* mutant: only the first loaded line is checked
insufficient_first_line(items) ==
    items # <<>> /\ items[1].number > items[1].available_items

\* the check for sufficient inventory over the loaded lines
insufficient(items) ==
    \E i \in 1..Len(items) : items[i].number > items[i].available_items

\* mutant: the new stock is computed from the loaded value and assigned
assigned_decrement(current, loaded, number) == loaded - number

\* available_items = F("available_items") - item.number: the store computes
\* the new value from the row's current value, not from the loaded one
f_decrement(current, loaded, number) == current - number

\* mutant: the column has no check
unchecked(value) == TRUE

\* the column check of a PositiveIntegerField
positive_integer_check(value) == value >= 0

\* mutant: the OrderItem keeps the field's default number
new_order_item_default_number(item, discount) ==
    [product |-> item.product,
     name |-> item.name,
     price |-> item.price * (100 - discount),
     discount |-> discount,
     number |-> 1]

\* OrderItem(order, product, name, price, discount, number), price not yet rounded
new_order_item(item, discount) ==
    [product |-> item.product,
     name |-> item.name,
     price |-> item.price * (100 - discount),
     discount |-> discount,
     number |-> item.number]

\* mutant: each line's amount is rounded to cents before it is added
add_rounded_to_total(total, final_price, number) ==
    total + 100 * RoundStore(final_price * number, rounding)

\* order_total += final_price * item.number
add_to_total(total, final_price, number) == total + final_price * number

\* mutant: the price is cut to the column's scale, not rounded
stored_item_truncated(oi) == [oi EXCEPT !.price = oi.price \div 100]

\* an OrderItem row as bulk_create writes it: price at the column's scale
stored_item(oi) == [oi EXCEPT !.price = RoundStore(oi.price, rounding)]

\* the Order row as order.save() writes it, with its OrderItem rows
stored_order(r) ==
    [user |-> req_user[r],
     total |-> RoundStore(order_total[r], rounding),
     items |-> [i \in 1..Len(order_items[r]) |-> stored_item(order_items[r][i])]]

\* Product rows once the product.save() calls of request r are committed:
\* save() writes every field of the loaded instance, and the stock relative
\* to the row
saved_products(r) ==
    [p \in Products |->
        IF \E i \in 1..Len(order_items[r]) : snap[r][i].product = p
        THEN LET i == CHOOSE j \in 1..Len(order_items[r]) : snap[r][j].product = p
             IN  [name |-> snap[r][i].name,
                  price |-> snap[r][i].price,
                  available_items |->
                      f_decrement(products[p].available_items,
                                  snap[r][i].available_items, snap[r][i].number)]
        ELSE products[p]]

\* mutant: no transaction, the saves made before the exception stay
autocommitted_products(r) == saved_products(r)

\* Product rows after the transaction of request r is rolled back
rolled_back_products(r) == products

\* mutant: only the lines that were loaded are deleted
rows_without_loaded(rows, loaded) ==
    SelectSeq(rows, LAMBDA row : \A i \in 1..Len(loaded) : loaded[i].product # row.product)

\* bucket_products.delete(): the filter runs again and deletes every line
\* the bucket has then
rows_after_delete(rows, loaded) == <<>>

\* the request ends with a response
respond(r, response) ==
    /\ pc' = [pc EXCEPT ![r] = "idle"]
    /\ resp' = [resp EXCEPT ![r] = response]
    /\ snap' = [snap EXCEPT ![r] = <<>>]
    /\ order_items' = [order_items EXCEPT ![r] = <<>>]
    /\ order_total' = [order_total EXCEPT ![r] = 0]

\* the transaction is left by an exception: rollback, logged, 500
rollback(r, exception) ==
    /\ products' = rolled_back_products(r)
    /\ UNCHANGED <<buckets, bucket_products, orders>>
    /\ logged' = [logged EXCEPT ![r] = exception]
    /\ respond(r, "server_error")

\* a POST create-order/ arrives
create_order_call(r, user) ==
    /\ pc[r] = "idle"
    /\ calls' = calls + 1
    /\ pc' = [pc EXCEPT ![r] = "get_bucket"]
    /\ req_user' = [req_user EXCEPT ![r] = user]
    /\ resp' = [resp EXCEPT ![r] = "none"]
    /\ logged' = [logged EXCEPT ![r] = "none"]
    /\ UNCHANGED <<buckets, bucket_products, products, orders, catalog,
                   snap, order_items, order_total, edits, observed>>

\* mutant: the bucket is made when the user has none
create_order_get_or_create_bucket(r) ==
    /\ pc[r] = "get_bucket"
    /\ buckets' = get_or_create_bucket(req_user[r])
    /\ pc' = [pc EXCEPT ![r] = "exists"]
    /\ UNCHANGED <<bucket_products, products, orders, catalog, req_user, resp,
                   logged, snap, order_items, order_total, calls, edits, observed>>

\* Bucket.objects.select_for_update().get(user=request.user), before the
\* transaction is opened: in autocommit the statement is its own
\* transaction, so a row lock it takes ends with it and is not held while
\* the rest of the handler runs
create_order_get_bucket(r) ==
    /\ pc[r] = "get_bucket"
    /\ IF req_user[r] \notin buckets
       THEN respond(r, "no_bucket")
       ELSE /\ pc' = [pc EXCEPT ![r] = "exists"]
            /\ UNCHANGED <<resp, snap, order_items, order_total>>
    /\ UNCHANGED <<buckets, bucket_products, products, orders, catalog,
                   req_user, logged, calls, edits, observed>>

\* bucket_products.exists()
create_order_exists(r) ==
    /\ pc[r] = "exists"
    /\ IF bucket_products[req_user[r]] = <<>>
       THEN respond(r, "empty_bucket")
       ELSE /\ pc' = [pc EXCEPT ![r] = "atomic"]
            /\ UNCHANGED <<resp, snap, order_items, order_total>>
    /\ UNCHANGED <<buckets, bucket_products, products, orders, catalog,
                   req_user, logged, calls, edits, observed>>

\* transaction.atomic() is entered, the queryset is evaluated, every line is
\* checked against its product's stock and the Order is created
create_order_check(r) ==
    /\ pc[r] = "atomic"
    /\ IF insufficient(evaluate(bucket_products[req_user[r]]))
       THEN respond(r, "insufficient_stock")
       ELSE /\ pc' = [pc EXCEPT ![r] = "items"]
            /\ snap' = [snap EXCEPT ![r] = evaluate(bucket_products[req_user[r]])]
            /\ order_items' = [order_items EXCEPT ![r] = <<>>]
            /\ order_total' = [order_total EXCEPT ![r] = 0]
            /\ UNCHANGED resp
    /\ UNCHANGED <<buckets, bucket_products, products, orders, catalog,
                   req_user, logged, calls, edits, observed>>

\* one turn of the second loop: discount, OrderItem, total, product.save().
\* The UPDATE waits for the row lock; the column check rejects a negative
\* stock with an IntegrityError
create_order_item(r) ==
    /\ pc[r] = "items"
    /\ Len(order_items[r]) < Len(snap[r])
    /\ LET item == snap[r][Len(order_items[r]) + 1]
           discount == get_best_discount(item.product, req_user[r])
           oi == new_order_item(item, discount)
       IN  /\ row_lock(item.product) \subseteq {r}
           /\ IF positive_integer_check(
                     f_decrement(products[item.product].available_items,
                                 item.available_items, item.number))
              THEN /\ order_items' = [order_items EXCEPT ![r] = Append(@, oi)]
                   /\ order_total' =
                          [order_total EXCEPT ![r] = add_to_total(@, oi.price, item.number)]
                   /\ UNCHANGED <<pc, resp, logged, snap, buckets, bucket_products,
                                  products, orders>>
              ELSE rollback(r, "IntegrityError")
    /\ UNCHANGED <<catalog, req_user, calls, edits, observed>>

\* bulk_create, order.save(), bucket_products.delete() and the commit
create_order_commit(r) ==
    /\ pc[r] = "items"
    /\ Len(order_items[r]) = Len(snap[r])
    /\ orders' = Append(orders, stored_order(r))
    /\ products' = saved_products(r)
    /\ bucket_products' =
           [bucket_products EXCEPT ![req_user[r]] = rows_after_delete(@, snap[r])]
    /\ respond(r, "created")
    /\ UNCHANGED <<buckets, catalog, req_user, logged, calls, edits, observed>>

\* a statement inside the transaction raises (a lost connection, a deadlock
\* the store resolves against this request, a lock wait that times out)
create_order_fail(r) ==
    /\ pc[r] = "items"
    /\ rollback(r, "OperationalError")
    /\ UNCHANGED <<catalog, req_user, calls, edits, observed>>

(* ---------------------------- admin ------------------------------------- *)

\* ProductAdmin: a product's name and price are edited
admin_edit_product(p, name, price) ==
    /\ edits < MaxEdits
    /\ row_lock(p) = {}
    /\ edits' = edits + 1
    /\ products' = [products EXCEPT ![p].name = name, ![p].price = price]
    /\ UNCHANGED <<buckets, bucket_products, orders, catalog, local, observed>>

\* SaleAdmin: a sale's discount is edited
admin_edit_sale(s, discount) ==
    /\ edits < MaxEdits
    /\ edits' = edits + 1
    /\ sales' = [sales EXCEPT ![s].discount = discount]
    /\ UNCHANGED <<buckets, bucket_products, products, orders,
                   product_categories, user_groups, now, rounding, local, observed>>

(* ---------------------------- product list ------------------------------ *)

\* V2ProductSerializer.get_discount: the discount the product list shows the
\* requester for a product; the list is open to anonymous requesters
get_discount(obj, user) ==
    /\ quote' = [product |-> obj, user |-> user,
                 discount |-> get_best_discount(obj, user)]
    /\ UNCHANGED <<buckets, bucket_products, products, orders, catalog, local,
                   edits, bucket_call, recording, adding, elsewhere>>

\* Category.id of each Category row
category_id == [c \in Categories |-> IF c = "c1" THEN 1 ELSE 2]

\* Product.objects.all(), in Meta.ordering: by name
all_products == <<"A", "B">>

\* x, k times
RECURSIVE repeat(_, _)
repeat(x, k) == IF k = 0 THEN <<>> ELSE <<x>> \o repeat(x, k - 1)

\* products.filter(categories__id__in=category_ids): the join with the
\* ProductCategory rows gives a product once for each of its categories
\* that is among the ids
RECURSIVE filter_categories(_, _)
filter_categories(rows, category_ids) ==
    IF rows = <<>> THEN <<>>
    ELSE repeat(Head(rows),
                Cardinality({c \in product_categories[Head(rows)] :
                                category_id[c] \in category_ids}))
         \o filter_categories(Tail(rows), category_ids)

\* products.exclude(categories__id__in=category_ids): the products that are
\* not among those with a ProductCategory row of one of the ids
exclude_categories(rows, category_ids) ==
    SelectSeq(rows, LAMBDA p : \A c \in product_categories[p] :
                                  category_id[c] \notin category_ids)

\* _get_filtered_products: the queryset, or the 400 response when a part of
\* the parameter is no integer
get_filtered_products(category_param, rows) ==
    IF ~category_param.given THEN [status |-> 200, products |-> rows]
    ELSE IF \E i \in 1..Len(category_param.parts) :
                int(category_param.parts[i]).error # "none"
    THEN [status |-> 400, products |-> <<>>]
    ELSE LET category_ids == {int(category_param.parts[i]).value :
                                 i \in 1..Len(category_param.parts)}
         IN  [status |-> 200,
              products |-> IF category_param.minus
                           THEN exclude_categories(rows, category_ids)
                           ELSE filter_categories(rows, category_ids)]

\* GET products/: one result for each row of the filtered queryset
product_list(category_param) ==
    /\ listing' =
           [category |-> category_param,
            status |-> get_filtered_products(category_param, all_products).status,
            results |-> get_filtered_products(category_param, all_products).products]
    /\ UNCHANGED <<buckets, bucket_products, products, orders, catalog, local,
                   edits, quote, bucket_call, recording, adding, registered,
                   announced>>

(* ---------------------------- registration ------------------------------ *)

\* UserRegistrationSerializer.is_valid(): the four fields are required and
\* the email is an address; no field is checked against the User rows
is_valid(data) ==
    /\ data.first_name # Absent
    /\ data.second_name # Absent
    /\ data.email \in Emails
    /\ data.password # Absent

\* POST registration/: create_user(username=email) is rejected by the unique
\* username when a User row has it, and the exception is answered 500
registration_view(data) ==
    /\ IF ~is_valid(data)
       THEN /\ registration' = [data |-> data, status |-> 400, token |-> Absent]
            /\ UNCHANGED <<accounts, tokens>>
       ELSE IF data.email \in accounts
       THEN /\ registration' = [data |-> data, status |-> 500, token |-> Absent]
            /\ UNCHANGED <<accounts, tokens>>
       ELSE /\ accounts' = accounts \cup {data.email}
            /\ tokens' = tokens \cup {data.email}
            /\ registration' = [data |-> data, status |-> 201, token |-> data.email]
    /\ UNCHANGED <<buckets, bucket_products, products, orders, catalog, local,
                   edits, quote, bucket_call, recording, adding, listing,
                   announced>>

(* ---------------------------- announcements ----------------------------- *)

\* Sale.objects.all(), in the order of the primary key
all_sales == <<"s1", "s2">>

\* Sale.objects.filter(was_announced=False, announcement_date__lte=now)
sales_to_announce ==
    SelectSeq(all_sales, LAMBDA s : ~was_announced[s] /\ announcement_date[s] <= now)

\* announce_sales up to the opening of the file: the two querysets are
\* evaluated, the task returns when one of them is empty, and the file is
\* opened and its header written otherwise
announce_sales_call(t) ==
    /\ task[t].pc = "idle"
    /\ runs' = runs + 1
    /\ IF sales_to_announce = <<>> \/ mail_users = {}
       THEN UNCHANGED <<task, csv_files>>
       ELSE /\ csv_files' = Append(csv_files, {})
            /\ task' = [task EXCEPT ![t] =
                            [pc |-> "write", sales_to_announce |-> sales_to_announce,
                             all_users |-> mail_users, file |-> Len(csv_files) + 1]]
    /\ UNCHANGED <<buckets, bucket_products, products, orders, catalog, local,
                   edits, quote, bucket_call, recording, adding, listing,
                   registered, announcement_date, was_announced, mail_users>>

\* one turn of the loop over the sales: a row for each user, then
\* sale.was_announced = True and sale.save(); the task returns after the
\* last sale
announce_sales_write(t) ==
    /\ task[t].pc = "write"
    /\ LET sale == Head(task[t].sales_to_announce)
       IN  /\ csv_files' =
                  [csv_files EXCEPT ![task[t].file] =
                      @ \cup {[email |-> user_email, sale |-> sale] :
                                 user_email \in task[t].all_users}]
           /\ was_announced' = [was_announced EXCEPT ![sale] = TRUE]
    /\ task' = [task EXCEPT ![t] =
                    IF Len(task[t].sales_to_announce) = 1 THEN NotRunning
                    ELSE [@ EXCEPT !.sales_to_announce = Tail(@)]]
    /\ UNCHANGED <<buckets, bucket_products, products, orders, catalog, local,
                   edits, quote, bucket_call, recording, adding, listing,
                   registered, announcement_date, mail_users, runs>>

\* the admin makes a User active and not staff, or makes it inactive
admin_edit_user(email) ==
    /\ mail_users' = IF email \in mail_users THEN mail_users \ {email}
                     ELSE mail_users \cup {email}
    /\ UNCHANGED <<buckets, bucket_products, products, orders, catalog, local,
                   edits, quote, bucket_call, recording, adding, listing,
                   registered, announcement_date, was_announced, csv_files,
                   task, runs>>

\* time passes: timezone.now() returns a later instant
tick ==
    /\ now < MaxNow
    /\ now' = now + 1
    /\ UNCHANGED <<buckets, bucket_products, products, orders,
                   product_categories, sales, user_groups, rounding, local,
                   edits, observed>>

(* ---------------------------- specification ----------------------------- *)

\* the bound on the quantity of a bucket line
lines_within(cap) ==
    \A u \in Users : \A i \in 1..Len(bucket_products'[u]) :
        bucket_products'[u][i].number <= cap

\* two users, two requests in flight, the catalog left alone
Next ==
    \/ \E u \in Users, id \in Products \cup {NoProduct}, n \in 0..MaxNumber :
           add_to_bucket(u, id, Integer(n)) /\ lines_within(MaxNumber)
    \/ \E u \in Users : bucket_view(u)
    \/ \E u \in Users, id \in Products \cup {NoProduct}, n \in 0..MaxNumber :
           bucket_product_detail_post(u, id, Integer(n))
    \/ \E u \in Users, id \in Products \cup {NoProduct} :
           bucket_product_detail_delete(u, id)
    \/ \E u \in Users, id \in Products, n \in 0..MaxNumber :
           viewset_update(u, id, Integer(n))
    \/ \E r \in Requests, u \in Users : calls < MaxCalls /\ create_order_call(r, u)
    \/ \E r \in Requests : create_order_get_bucket(r)
    \/ \E r \in Requests : create_order_exists(r)
    \/ \E r \in Requests : create_order_check(r)
    \/ \E r \in Requests : create_order_item(r)
    \/ \E r \in Requests : create_order_commit(r)
    \/ \E r \in Requests : create_order_fail(r)

Spec == Init /\ [][Next]_vars

\* one user, one request in flight, larger quantities, the admin at work
NextOne ==
    \/ \E id \in Products \cup {NoProduct}, n \in -1..MaxNumberOne :
           add_to_bucket("u1", id, Integer(n)) /\ lines_within(MaxNumberOne)
    \/ bucket_view("u1")
    \/ \E id \in Products \cup {NoProduct}, n \in -1..MaxNumberOne :
           bucket_product_detail_post("u1", id, Integer(n))
    \/ \E id \in Products \cup {NoProduct} : bucket_product_detail_delete("u1", id)
    \/ \E id \in Products, n \in -1..MaxNumberOne :
           viewset_update("u1", id, Integer(n))
    \/ calls < MaxCallsOne /\ create_order_call("r1", "u1")
    \/ create_order_get_bucket("r1")
    \/ create_order_exists("r1")
    \/ create_order_check("r1")
    \/ create_order_item("r1")
    \/ create_order_commit("r1")
    \/ create_order_fail("r1")
    \/ \E p \in Products, n \in Names, c \in Prices : admin_edit_product(p, n, c)
    \/ \E s \in Sales, d \in Discounts : admin_edit_sale(s, d)

SpecOne == InitOne /\ [][NextOne]_vars

\* what a request may carry as its number: the integers from -1 to cap, the
\* fractions 0.5 and 1.5, a number too large for a float, the string "1",
\* a string that is no number, null, and nothing
RawNumbers(cap) ==
    {Integer(n) : n \in -1..cap}
        \cup {Float(5), Float(15), Infinite, Digits(1), Text, Null, Missing}

\* one shopper calling the bucket handlers, every call recorded
NextBucket ==
    \/ \E id \in Products \cup {NoProduct}, n \in RawNumbers(MaxNumberBucket) :
           add_to_bucket("u1", id, n) /\ lines_within(MaxLineBucket)
    \/ bucket_view("u1")
    \/ \E id \in Products \cup {NoProduct}, n \in RawNumbers(MaxNumberBucket) :
           bucket_product_detail_post("u1", id, n)
    \/ \E id \in Products \cup {NoProduct} : bucket_product_detail_delete("u1", id)
    \/ \E id \in Products \cup {NoProduct}, n \in RawNumbers(MaxNumberBucket) :
           viewset_update("u1", id, n)

SpecBucket == InitBucket /\ [][NextBucket]_vars

\* an add request in flight has read the row of the product in the user's
\* bucket and is to write it
loaded_by_add(user, id) ==
    \E a \in AddRequests :
        /\ adding[a].pc = "save" /\ adding[a].user = user
        /\ adding[a].product = id /\ adding[a].loaded # 0

\* one shopper with two add requests in flight together, each a read and a
\* write that the other requests come between; a row is not deleted between
\* the read and the write of an add that has read it
NextAdds ==
    \/ \E a \in AddRequests, id \in Products \cup {NoProduct}, n \in 0..MaxNumberAdds :
           add_to_bucket_get(a, "u1", id, Integer(n))
    \/ \E a \in AddRequests : add_to_bucket_save(a) /\ lines_within(MaxLineAdds)
    \/ bucket_view("u1")
    \/ \E id \in Products \cup {NoProduct}, n \in 0..MaxNumberAdds :
           bucket_product_detail_post("u1", id, Integer(n))
    \/ \E id \in Products \cup {NoProduct} :
           ~loaded_by_add("u1", id) /\ bucket_product_detail_delete("u1", id)
    \/ \E id \in Products, n \in 0..MaxNumberAdds : viewset_update("u1", id, Integer(n))

SpecAdds == InitAdds /\ [][NextAdds]_vars

\* two shoppers calling the bucket handlers, every call recorded
NextShared ==
    \/ \E u \in Users, id \in Products, n \in 1..MaxNumberShared :
           add_to_bucket(u, id, Integer(n)) /\ lines_within(MaxLineShared)
    \/ \E u \in Users : bucket_view(u)
    \/ \E u \in Users, id \in Products \cup {NoProduct},
          n \in RawNumbers(MaxNumberShared) :
           bucket_product_detail_post(u, id, n)
    \/ \E u \in Users, id \in Products \cup {NoProduct} :
           bucket_product_detail_delete(u, id)
    \/ \E u \in Users, id \in Products \cup {NoProduct}, n \in 0..MaxNumberShared :
           viewset_update(u, id, Integer(n))

SpecShared == InitBucket /\ [][NextShared]_vars

\* the product list called with every category parameter, over every
\* assignment of the products to the categories
NextList == \E category_param \in CategoryParams(MaxIds) : product_list(category_param)

SpecList == InitList /\ [][NextList]_vars

\* registrations with every request body, one after another
NextRegistration == \E data \in RegistrationData : registration_view(data)

SpecRegistration == Init /\ [][NextRegistration]_vars

\* the announce_sales task run by two workers while time passes and users
\* come and go
NextAnnounce ==
    \/ \E t \in Tasks : runs < MaxRuns /\ announce_sales_call(t)
    \/ \E t \in Tasks : announce_sales_write(t)
    \/ \E email \in Emails : admin_edit_user(email)
    \/ tick

SpecAnnounce == InitAnnounce /\ [][NextAnnounce]_vars

\* the product list read by every requester while time passes, over every
\* set-up of the sales
NextDiscount ==
    \/ \E p \in Products, u \in Users \cup {Anonymous} : get_discount(p, u)
    \/ tick

SpecDiscount == InitDiscount /\ [][NextDiscount]_vars

(* ---------------------------- properties -------------------------------- *)

\* request r takes a step of create_order
Step(r) == pc'[r] # pc[r] \/ order_items'[r] # order_items[r]

\* request r sends this response in the step
Responds(r, response) == Step(r) /\ pc'[r] = "idle" /\ resp'[r] = response

Last(s) == s[Len(s)]

\* quantity of product p in a sequence of lines
RECURSIVE Quantity(_, _)
Quantity(lines, p) ==
    IF lines = <<>> THEN 0
    ELSE (IF Last(lines).product = p THEN Last(lines).number ELSE 0)
         + Quantity(SubSeq(lines, 1, Len(lines) - 1), p)

\* quantity of product p in all committed orders
RECURSIVE Ordered(_, _)
Ordered(os, p) ==
    IF os = <<>> THEN 0
    ELSE Quantity(Last(os).items, p) + Ordered(SubSeq(os, 1, Len(os) - 1), p)

\* whether a line of the bucket asks for more than its product has
Short(row) == row.number > products[row.product].available_items

\* C1: when create_order reaches its stock check and a line of the user's
\* bucket asks for more than its product's available_items, the call answers
\* 400 insufficient stock, and neither that step nor any step before it has
\* changed a row of the store.
C1_InsufficientStockNoEffect ==
    [][\A r \in Requests :
        /\ (pc[r] = "atomic" /\ Step(r)
            /\ \E i \in 1..Len(bucket_products[req_user[r]]) :
                   Short(bucket_products[req_user[r]][i]))
           => (Responds(r, "insufficient_stock") /\ Status(resp'[r]) = 400 /\ db' = db)
        /\ (pc[r] \in {"idle", "get_bucket", "exists"} /\ Step(r)) => db' = db]_vars

\* C1 witness: a call was answered insufficient stock for a bucket whose first
\* line is covered by the stock and whose second is not; nothing was ordered
\* and the first line's product still has its stock.
C1_Witness ==
    \E r \in Requests :
        /\ pc[r] = "idle" /\ resp[r] = "insufficient_stock"
        /\ Len(bucket_products[req_user[r]]) = 2
        /\ ~Short(bucket_products[req_user[r]][1])
        /\ Short(bucket_products[req_user[r]][2])
        /\ products[bucket_products[req_user[r]][1].product].available_items > 0

\* request r is past the locking read of its user's Bucket row and has
\* neither committed nor aborted
HoldsBucket(r) == pc[r] \in {"exists", "atomic", "items"}

\* C2: two create_order calls of the same user never run interleaved: while
\* one is between its locking read of the Bucket row and its commit or abort,
\* the other is not.
C2_SameUserSerialized ==
    \A r1, r2 \in Requests :
        (r1 # r2 /\ req_user[r1] = req_user[r2]) => ~(HoldsBucket(r1) /\ HoldsBucket(r2))

\* C3: every product's available_items is >= 0 in every reachable state.
C3_StockNeverNegative ==
    \A p \in Products : products[p].available_items >= 0

\* C3 witness: a checkout has taken the last items of a product while another
\* request, which loaded the line when the stock still covered it, is about
\* to decrement the same product.
C3_Witness ==
    \E r \in Requests :
        /\ pc[r] = "items"
        /\ Len(order_items[r]) < Len(snap[r])
        /\ Len(orders) > 0
        /\ LET item == snap[r][Len(order_items[r]) + 1]
           IN  /\ item.number <= item.available_items
               /\ item.number > products[item.product].available_items

\* C4: the committed orders never hold more of a product than it had at the
\* start, and its available_items is the initial stock minus what the
\* committed orders hold: no oversell, no lost decrement.
C4_StockAccounting ==
    \A p \in Products :
        /\ Ordered(orders, p) <= InitStock
        /\ products[p].available_items = InitStock - Ordered(orders, p)

\* C4 witness: two checkouts of different users are in their transactions at
\* once, one has decremented a product and the other is next to decrement it.
C4_Witness ==
    \E r1, r2 \in Requests :
        /\ req_user[r1] # req_user[r2]
        /\ pc[r1] = "items" /\ pc[r2] = "items"
        /\ Len(order_items[r2]) < Len(snap[r2])
        /\ r1 \in row_lock(snap[r2][Len(order_items[r2]) + 1].product)

\* C5: when a create_order call that has created its Order inside the
\* transaction ends with the server-error answer, the status is 500 and no
\* row of the store has changed: no Order, no OrderItem, no stock, no bucket
\* line.  A decrement the column check rejects ends the call that way.
C5_FailureRollsBack ==
    [][\A r \in Requests :
        /\ (pc[r] = "items" /\ Responds(r, "server_error"))
           => (Status(resp'[r]) = 500 /\ db' = db)
        /\ (pc[r] = "items" /\ Step(r) /\ Len(order_items[r]) < Len(snap[r])
            /\ snap[r][Len(order_items[r]) + 1].number >
                   products[snap[r][Len(order_items[r]) + 1].product].available_items)
           => (Responds(r, "server_error") /\ db' = db)]_vars

\* C5 witness: a call was answered 500 because the store rejected its
\* decrement, after another checkout had committed.
C5_Witness ==
    \E r \in Requests :
        /\ pc[r] = "idle" /\ resp[r] = "server_error" /\ logged[r] = "IntegrityError"
        /\ Len(orders) = 1
        /\ bucket_products[req_user[r]] # <<>>

\* C6: a create_order call that answers 201 leaves its user's bucket without
\* lines; a call finds an existing bucket, and one that finds it without
\* lines answers 400 empty bucket and changes no row of the store.
C6_SuccessEmptiesThenEmptyError ==
    [][\A r \in Requests :
        /\ Responds(r, "created") => bucket_products'[req_user[r]] = <<>>
        /\ (pc[r] = "get_bucket" /\ Step(r) /\ req_user[r] \in buckets)
           => (pc'[r] = "exists" /\ db' = db)
        /\ (pc[r] = "exists" /\ Step(r) /\ bucket_products[req_user[r]] = <<>>)
           => (Responds(r, "empty_bucket") /\ Status(resp'[r]) = 400 /\ db' = db)]_vars

\* C6 witness: one call of a user was answered 201 and another call of the
\* same user was then answered 400 empty bucket.
C6_Witness ==
    \E r1, r2 \in Requests :
        /\ r1 # r2 /\ req_user[r1] = req_user[r2]
        /\ pc[r1] = "idle" /\ resp[r1] = "created"
        /\ pc[r2] = "idle" /\ resp[r2] = "empty_bucket"
        /\ Len(orders) = 1
        /\ bucket_products[req_user[r1]] = <<>>

\* C7: the Order rows change only by a call that answers 201, which adds
\* exactly one Order of the calling user with one OrderItem per line the call
\* loaded from the bucket, carrying the line's product and quantity, and
\* lowers each product's available_items by exactly the quantity of its line.
C7_OneOrderOneItemPerLine ==
    [][/\ orders' # orders => \E r \in Requests : Responds(r, "created")
       /\ \A r \in Requests : Responds(r, "created") =>
            /\ Len(orders') = Len(orders) + 1
            /\ SubSeq(orders', 1, Len(orders)) = orders
            /\ Last(orders').user = req_user[r]
            /\ Len(Last(orders').items) = Len(snap[r])
            /\ \A i \in 1..Len(snap[r]) :
                   /\ Last(orders').items[i].product = snap[r][i].product
                   /\ Last(orders').items[i].number = snap[r][i].number
            /\ \A p \in Products :
                   products'[p].available_items =
                       products[p].available_items - Quantity(snap[r], p)]_vars

\* C7 witness: an order of two lines, quantities 2 and 1, is committed and the
\* two products are left with the initial stock less 2 and less 1.
C7_Witness ==
    /\ resp["r1"] = "created"
    /\ Len(orders) = 1
    /\ Len(orders[1].items) = 2
    /\ orders[1].items[1].number = 2
    /\ orders[1].items[2].number = 1
    /\ products[orders[1].items[1].product].available_items = InitStockOne - 2
    /\ products[orders[1].items[2].product].available_items = InitStockOne - 1

\* unit_price * (1 - discount) * quantity of the i-th line of request r,
\* in 1/10000
Term(r, i) == snap[r][i].price * (100 - order_items[r][i].discount) * snap[r][i].number

RECURSIVE SumTerms(_, _)
SumTerms(r, n) == IF n = 0 THEN 0 ELSE Term(r, n) + SumTerms(r, n - 1)

RECURSIVE SumRoundedTerms(_, _)
SumRoundedTerms(r, n) ==
    IF n = 0 THEN 0
    ELSE RoundStore(Term(r, n), rounding) + SumRoundedTerms(r, n - 1)

\* C8 as stated: the stored total of a new Order is the sum of its lines'
\* terms unit_price * (1 - discount) * quantity, each rounded to 2 decimal
\* places before being summed.
C8_TotalOfRoundedTerms ==
    [][\A r \in Requests : Responds(r, "created") =>
          Last(orders').total = SumRoundedTerms(r, Len(snap[r]))]_vars

\* C8 as amended: the stored total of a new Order is the exact sum of its
\* lines' terms unit_price * (1 - discount) * quantity, rounded once to 2
\* decimal places when the Order is written.
C8_TotalRoundedOnce ==
    [][\A r \in Requests : Responds(r, "created") =>
          Last(orders').total = RoundStore(SumTerms(r, Len(snap[r])), rounding)]_vars

\* stored price * quantity summed over the OrderItems of an order
RECURSIVE SumStored(_)
SumStored(items) ==
    IF items = <<>> THEN 0
    ELSE Last(items).price * Last(items).number
         + SumStored(SubSeq(items, 1, Len(items) - 1))

\* C8 witness: a committed order of two discounted lines whose total is not
\* the sum of its stored line prices times their quantities.
C8_Witness ==
    \E k \in 1..Len(orders) :
        /\ Len(orders[k].items) = 2
        /\ \A i \in 1..2 : orders[k].items[i].discount > 0
        /\ orders[k].total # SumStored(orders[k].items)

\* what C9 says of a new order's lines, with the price given by priced
LinesRecorded(r, priced(_)) ==
    /\ Len(Last(orders').items) = Len(snap[r])
    /\ \A i \in 1..Len(snap[r]) :
           /\ Last(orders').items[i].product = snap[r][i].product
           /\ Last(orders').items[i].name = snap[r][i].name
           /\ Last(orders').items[i].discount = order_items[r][i].discount
           /\ Last(orders').items[i].number = snap[r][i].number
           /\ priced(i)

\* the discount put on a line is the one resolved for the ordering user
DiscountResolved ==
    \A r \in Requests :
        (pc[r] = "items" /\ Len(order_items'[r]) = Len(order_items[r]) + 1) =>
            Last(order_items'[r]).discount =
                get_best_discount(Last(order_items'[r]).product, req_user[r])

\* committed orders never change
OrdersFrozen == \A k \in 1..Len(orders) : Len(orders') >= k /\ orders'[k] = orders[k]

\* C9 as stated: each OrderItem of a new order records the product's name,
\* the price unit_price * (1 - discount), the discount resolved for the user
\* and the quantity, and no later step changes a committed Order.
C9_SnapshotExactPrice ==
    [][/\ DiscountResolved
       /\ OrdersFrozen
       /\ \A r \in Requests : Responds(r, "created") =>
            LET exact(i) == 100 * Last(orders').items[i].price =
                                snap[r][i].price * (100 - order_items[r][i].discount)
            IN  LinesRecorded(r, exact)]_vars

\* C9 as amended: each OrderItem of a new order records the product's name,
\* the price unit_price * (1 - discount) rounded to 2 decimal places, the
\* discount resolved for the user and the quantity, and no later step (an
\* edit of a product or a sale, a bucket operation, a checkout) changes a
\* committed Order.
C9_SnapshotRoundedPrice ==
    [][/\ DiscountResolved
       /\ OrdersFrozen
       /\ \A r \in Requests : Responds(r, "created") =>
            LET rounded(i) == Last(orders').items[i].price =
                                  RoundStore(snap[r][i].price
                                                 * (100 - order_items[r][i].discount),
                                             rounding)
            IN  LinesRecorded(r, rounded)]_vars

\* C9 witness: a committed order holds a discounted line whose product has
\* since been renamed by the admin; the line keeps the name it was sold under.
C9_Witness ==
    \E k \in 1..Len(orders) : \E i \in 1..Len(orders[k].items) :
        /\ edits > 0
        /\ orders[k].items[i].discount > 0
        /\ orders[k].items[i].name # products[orders[k].items[i].product].name

\* C10: create_order for a user without a Bucket row answers 400 no bucket
\* and changes no row of the store; no Bucket row is made for the user.
C10_NoBucketNoEffect ==
    [][\A r \in Requests :
        (pc[r] = "get_bucket" /\ Step(r) /\ req_user[r] \notin buckets)
        => (Responds(r, "no_bucket") /\ Status(resp'[r]) = 400
            /\ db' = db /\ req_user[r] \notin buckets')]_vars

\* C10 witness: a call was answered no bucket and its user still has none.
C10_Witness ==
    \E r \in Requests :
        pc[r] = "idle" /\ resp[r] = "no_bucket" /\ req_user[r] \notin buckets

\* the window of sale s holds the current instant, both ends included
Active(s) == sales[s].start_date <= now /\ now <= sales[s].end_date

\* sale s lists product p itself
ListsProduct(s, p) == p \in sales[s].products

\* sale s lists a category product p belongs to
ListsCategoryOf(s, p) == sales[s].categories \cap product_categories[p] # {}

\* sale s targets product p: directly or through one of its categories
Targets(s, p) == ListsProduct(s, p) \/ ListsCategoryOf(s, p)

\* sale s has no allowed users and no allowed groups
Public(s) == sales[s].allowed_users = {} /\ sales[s].allowed_groups = {}

\* sale s is applicable to requester u
Applicable(s, u) ==
    \/ Public(s)
    \/ /\ u \in Users
       /\ \/ u \in sales[s].allowed_users
          \/ sales[s].allowed_groups \cap user_groups[u] # {}

\* the product list answers a requester in this step
Quoted == quote' # quote

\* the sales that target p, are active and are applicable to u
Eligible(p, u) == {s \in Sales : Targets(s, p) /\ Active(s) /\ Applicable(s, u)}

\* C11: for every product and requester, get_best_discount returns the
\* largest discount among the sales that target the product (directly or
\* through a category), whose window holds now with both ends included, and
\* that are applicable to the requester; it returns 0 when there is none, and
\* never the sum of several discounts.
C11_BestOfTargetingSales ==
    [][Quoted =>
          quote'.discount =
              IF Eligible(quote'.product, quote'.user) = {} THEN 0
              ELSE Max({sales[s].discount :
                           s \in Eligible(quote'.product, quote'.user)})]_vars

\* C12: an active, applicable sale that lists only a category of the product,
\* and not the product, contributes its discount: the requester is shown at
\* least that discount.
C12_CategorySaleCounts ==
    [][Quoted =>
          \A s \in Sales :
              (/\ ListsCategoryOf(s, quote'.product)
               /\ ~ListsProduct(s, quote'.product)
               /\ Active(s)
               /\ Applicable(s, quote'.user))
              => quote'.discount >= sales[s].discount]_vars

\* C13: an anonymous requester is never shown a discount that comes from a
\* closed sale: what it is shown is 0 or the discount of an active sale on
\* the product that has no allowed users and no allowed groups.
C13_AnonymousNeverClosedSale ==
    [][(Quoted /\ quote'.user = Anonymous) =>
          \/ quote'.discount = 0
          \/ \E s \in Sales :
                 /\ Public(s) /\ Active(s) /\ Targets(s, quote'.product)
                 /\ sales[s].discount = quote'.discount]_vars

\* C13 witness: an anonymous requester was shown the discount of a public
\* sale while a closed sale with a larger discount is active on the product.
C13_Witness ==
    /\ quote.user = Anonymous
    /\ quote.discount > 0
    /\ \E s \in Sales :
           /\ ~Public(s) /\ Active(s) /\ ListsProduct(s, quote.product)
           /\ sales[s].discount > quote.discount

\* C14: for an authenticated requester a sale is applicable exactly when it
\* is public, or lists the requester among its allowed users, or lists a
\* group of the requester among its allowed groups: the discount shown is 0
\* or that of an active sale applicable in this sense, and it is at least the
\* discount of every active sale on the product that is applicable in this
\* sense, whether the sale restricts by users, by groups or by both.
C14_AuthenticatedApplicability ==
    [][(Quoted /\ quote'.user \in Users) =>
          /\ \/ quote'.discount = 0
             \/ \E s \in Sales :
                    /\ Applicable(s, quote'.user) /\ Active(s)
                    /\ Targets(s, quote'.product)
                    /\ sales[s].discount = quote'.discount
          /\ \A s \in Sales :
                 (/\ Applicable(s, quote'.user) /\ Active(s)
                  /\ ListsProduct(s, quote'.product))
                 => quote'.discount >= sales[s].discount]_vars

\* C14 witness: a member of an allowed group was shown the discount of a
\* sale that restricts by groups only, while a sale closed to another user is
\* active on the product with a discount the member is not shown.
C14_Witness ==
    /\ quote.user \in Users
    /\ \E s, t \in Sales :
           /\ sales[s].allowed_users = {}
           /\ sales[s].allowed_groups \cap user_groups[quote.user] # {}
           /\ Active(s) /\ ListsProduct(s, quote.product)
           /\ quote.discount = sales[s].discount
           /\ ~Applicable(t, quote.user)
           /\ Active(t) /\ ListsProduct(t, quote.product)
           /\ sales[t].discount > quote.discount

\* a bucket handler is called in this step, and bucket_call' is the call
Called(handler) == bucket_call' # bucket_call /\ bucket_call'.handler = handler

\* the request's number is a positive integer
PositiveInteger(number) == number.kind \in {"int", "digits"} /\ number.value >= 1

\* the request's number is an integer that is not positive, or no integer: a
\* number with a fraction, a string that is no number, null
NotPositiveInteger(number) ==
    \/ number.kind = "int" /\ number.value <= 0
    \/ number.kind \in {"float", "str", "null"}

\* the lines of product p in a sequence of lines
LinesOf(lines, p) == {i \in 1..Len(lines) : lines[i].product = p}

\* C15: a successful add_to_bucket of product p with the integer n leaves the
\* bucket with exactly one line of p, whose quantity is n more than the
\* bucket held of p before (0 when it had no line of p): the first add
\* makes the line with quantity n, and the adds n1..nk sum up to n1 + ... + nk.
C15_AddAccumulates ==
    [][(/\ Called("add_to_bucket")
        /\ bucket_call'.status = 200
        /\ PositiveInteger(bucket_call'.number))
       => /\ Cardinality(LinesOf(bucket_products'[bucket_call'.user],
                                 bucket_call'.id)) = 1
          /\ Quantity(bucket_products'[bucket_call'.user], bucket_call'.id) =
                 Quantity(bucket_products[bucket_call'.user], bucket_call'.id)
                     + bucket_call'.number.value]_vars

\* C16: every bucket line has a quantity of at least 1 in every reachable
\* state, whatever adds, updates (v1 and v2), deletes and checkouts ran.
C16_LinesPositive ==
    \A u \in Users : \A i \in 1..Len(bucket_products[u]) :
        bucket_products[u][i].number >= 1

\* C16 witness: after a committed checkout the bucket holds lines again, one
\* at the smallest quantity and one above it.
C16_Witness ==
    /\ Len(orders) > 0
    /\ Len(bucket_products["u1"]) = 2
    /\ bucket_products["u1"][1].number = 1
    /\ bucket_products["u1"][2].number = MaxNumberOne

\* C17: add_to_bucket with a number that is not a positive integer answers
\* 400 and leaves the bucket's lines as they were, whether or not the id
\* names a product.
C17_BadNumberRejected ==
    [][(Called("add_to_bucket") /\ NotPositiveInteger(bucket_call'.number))
       => (bucket_call'.status = 400 /\ UNCHANGED bucket_products)]_vars

\* C18: a bucket never holds two lines of the same product, also when add
\* requests of the same user for the same product run interleaved.
C18_OneLinePerProduct ==
    \A u \in Users : \A p \in Products :
        Cardinality(LinesOf(bucket_products[u], p)) <= 1

\* C18 witness: an add request that found no line of its product is about to
\* insert one, and another request has inserted a line of that product since.
C18_Witness ==
    \E a \in AddRequests :
        /\ adding[a].pc = "save"
        /\ adding[a].loaded = 0
        /\ LinesOf(bucket_products[adding[a].user], adding[a].product) # {}

\* the sum of price * quantity over the products, at the catalog price
RECURSIVE AtCatalogPrice(_, _)
AtCatalogPrice(lines, ps) ==
    IF ps = {} THEN 0
    ELSE LET p == CHOOSE q \in ps : TRUE
         IN  products[p].price * Quantity(lines, p) + AtCatalogPrice(lines, ps \ {p})

\* C19: the total a bucket handler reports (bucket_view, add, update) is the
\* sum of product price * quantity over the lines the bucket then has, with
\* no discount taken off, and 0 for a bucket without lines.
C19_TotalUndiscounted ==
    [][(bucket_call' # bucket_call /\ bucket_call'.status = 200)
       => /\ bucket_call'.total =
                 AtCatalogPrice(bucket_products'[bucket_call'.user], Products)
          /\ bucket_products'[bucket_call'.user] = <<>> => bucket_call'.total = 0]_vars

\* C19 witness: bucket_view reported the total of a bucket with two lines,
\* one of quantity 2, while a discount is active on both products.
C19_Witness ==
    /\ bucket_call.handler = "bucket_view"
    /\ bucket_call.status = 200
    /\ bucket_call.total > 0
    /\ Len(bucket_products[bucket_call.user]) = 2
    /\ \E i \in 1..2 : bucket_products[bucket_call.user][i].number = 2
    /\ \A i \in 1..2 :
           get_best_discount(bucket_products[bucket_call.user][i].product,
                             bucket_call.user) > 0

\* C20: POST bucket/<id>/update/ for a product that has a line in the bucket,
\* with a positive integer n, answers 200, sets the quantity of that line to
\* n whatever it was, and leaves every other line as it was.
C20_UpdateSetsQuantity ==
    [][(/\ Called("bucket_product_detail_post")
        /\ LinesOf(bucket_products[bucket_call'.user], bucket_call'.id) # {}
        /\ PositiveInteger(bucket_call'.number))
       => LET before == bucket_products[bucket_call'.user]
              after == bucket_products'[bucket_call'.user]
          IN  /\ bucket_call'.status = 200
              /\ Len(after) = Len(before)
              /\ \A i \in 1..Len(before) :
                     /\ after[i].product = before[i].product
                     /\ after[i].number =
                            IF before[i].product = bucket_call'.id
                            THEN bucket_call'.number.value
                            ELSE before[i].number]_vars

\* C20 witness: an update was answered 200 and its line holds the number of
\* the request, less than the quantity of the other line of the bucket.
C20_Witness ==
    /\ bucket_call.handler = "bucket_product_detail_post"
    /\ bucket_call.status = 200
    /\ Len(bucket_products[bucket_call.user]) = 2
    /\ \E i, j \in 1..2 :
           /\ bucket_products[bucket_call.user][i].product = bucket_call.id
           /\ bucket_products[bucket_call.user][i].number = bucket_call.number.value
           /\ bucket_products[bucket_call.user][j].number > bucket_call.number.value

\* C21: an update (v1 with any number, v2 with a number that passes its
\* check) or a delete of a product that has no line in the caller's bucket
\* answers 404 and leaves the lines of every bucket as they were, also when
\* another user's bucket has a line of the product.
C21_AbsentLineNotFound ==
    [][(/\ \/ Called("bucket_product_detail_post")
           \/ Called("bucket_product_detail_delete")
           \/ Called("viewset_update") /\ PositiveInteger(bucket_call'.number)
        /\ LinesOf(bucket_products[bucket_call'.user], bucket_call'.id) = {})
       => (bucket_call'.status = 404 /\ UNCHANGED bucket_products)]_vars

\* C21 witness: an update with a number that is no integer was answered 404
\* for a product that only the other user's bucket has a line of.
C21_Witness ==
    /\ bucket_call.handler = "bucket_product_detail_post"
    /\ bucket_call.status = 404
    /\ bucket_call.number.kind = "str"
    /\ LinesOf(bucket_products[bucket_call.user], bucket_call.id) = {}
    /\ \E u \in Users \ {bucket_call.user} :
           LinesOf(bucket_products[u], bucket_call.id) # {}

\* C22: a delete of a product that has a line in the caller's bucket answers
\* 204, removes that line and no other (the bucket has no line of the product
\* afterwards and its other lines keep their order and quantity), and leaves
\* the other users' buckets and every product's available_items as they were.
C22_DeleteRemovesOneLine ==
    [][(/\ Called("bucket_product_detail_delete")
        /\ LinesOf(bucket_products[bucket_call'.user], bucket_call'.id) # {})
       => LET user == bucket_call'.user
              before == bucket_products[user]
              after == bucket_products'[user]
          IN  /\ bucket_call'.status = 204
              /\ LinesOf(after, bucket_call'.id) = {}
              /\ after = SelectSeq(before, LAMBDA row : row.product # bucket_call'.id)
              /\ \A u \in Users \ {user} : bucket_products'[u] = bucket_products[u]
              /\ \A p \in Products :
                     products'[p].available_items = products[p].available_items]_vars

\* C22 witness: a delete was answered 204, the caller's bucket keeps its other
\* line and the other user's bucket keeps its line of the deleted product.
C22_Witness ==
    /\ bucket_call.handler = "bucket_product_detail_delete"
    /\ bucket_call.status = 204
    /\ Len(bucket_products[bucket_call.user]) = 1
    /\ LinesOf(bucket_products[bucket_call.user], bucket_call.id) = {}
    /\ \E u \in Users \ {bucket_call.user} :
           LinesOf(bucket_products[u], bucket_call.id) # {}

\* the product list is called in this step
Listed == listing' # listing

\* every part of the category parameter is an integer
AllIntegers(parts) == \A i \in 1..Len(parts) : parts[i].kind = "digits"

\* the categories whose ids the parts name
Named(parts) == {c \in Categories : \E i \in 1..Len(parts) : parts[i].value = category_id[c]}

\* C23: with the ids c1,..,ck the product list returns exactly the products
\* that belong to at least one of those categories, each once; with a
\* leading "-" exactly the products that belong to none of them; and with a
\* value that is no comma-separated list of integers it answers 400.
C23_CategoryFilter ==
    [][(Listed /\ listing'.category.given) =>
          LET parts == listing'.category.parts
          IN  IF ~AllIntegers(parts) THEN listing'.status = 400
              ELSE /\ listing'.status = 200
                   /\ listing'.results =
                          SelectSeq(all_products,
                                    LAMBDA p :
                                        IF listing'.category.minus
                                        THEN product_categories[p] \cap Named(parts) = {}
                                        ELSE product_categories[p] \cap Named(parts) # {})]_vars

\* registration_view is called in this step
Registered == registration' # registration

\* the request body has every field, and its email is an address
ValidData(data) ==
    /\ data.first_name # Absent /\ data.second_name # Absent
    /\ data.password # Absent /\ data.email \in Emails

\* C24: a registration with valid data answers 201 with the token of a new
\* User whose username is the email, and makes that User and no other; a
\* registration with invalid data answers 400 and makes no User and no Token.
C24_Registration ==
    [][Registered =>
          IF ValidData(registration'.data)
          THEN /\ registration'.status = 201
               /\ registration'.data.email \notin accounts
               /\ accounts' = accounts \cup {registration'.data.email}
               /\ registration'.token = registration'.data.email
               /\ tokens' = tokens \cup {registration'.data.email}
          ELSE /\ registration'.status = 400
               /\ UNCHANGED <<accounts, tokens>>]_vars

\* C25: every committed Order has at least one OrderItem, whatever bucket
\* operations ran between the steps of the create_order call that made it.
C25_NoEmptyOrder ==
    \A k \in 1..Len(orders) : Len(orders[k].items) >= 1

\* C26: every line that a create_order call answered 201 removes from the
\* bucket is in the committed Order with its product and the quantity it had
\* when it was removed, also when adds, updates and deletes of the same user
\* ran between the steps of the call.
C26_CheckoutConserves ==
    [][\A r \in Requests : Responds(r, "created") =>
          \A i \in 1..Len(bucket_products[req_user[r]]) :
              LET line == bucket_products[req_user[r]][i]
              IN  (\A j \in 1..Len(bucket_products'[req_user[r]]) :
                       bucket_products'[req_user[r]][j] # line)
                  => \E j \in 1..Len(Last(orders').items) :
                         /\ Last(orders').items[j].product = line.product
                         /\ Last(orders').items[j].number = line.number]_vars

\* C27: a create_order call answered 201 leaves as they were the lines of
\* every other user's bucket, the available_items of every product without a
\* line among those the call loaded from the caller's bucket, the name and
\* the price of every product, every Sale and every Order committed before.
C27_CheckoutFrame ==
    [][\A r \in Requests : Responds(r, "created") =>
          /\ \A u \in Users \ {req_user[r]} : bucket_products'[u] = bucket_products[u]
          /\ \A p \in Products :
                 /\ LinesOf(snap[r], p) = {}
                    => products'[p].available_items = products[p].available_items
                 /\ products'[p].name = products[p].name
                 /\ products'[p].price = products[p].price
          /\ sales' = sales
          /\ OrdersFrozen]_vars

\* the announcement files that have a row of sale s
FilesOf(files, s) == {k \in 1..Len(files) : \E row \in files[k] : row.sale = s}

\* sale s is marked announced in this step
Marked(s) == ~was_announced[s] /\ was_announced'[s]

\* C28: over the runs of announce_sales a sale's was_announced never goes
\* back to False, a sale is marked announced only when its announcement_date
\* is not after now, and only by a run that found active non-staff users;
\* the run writes a row of the sale for each of those users, and no sale has
\* rows in the files of two runs.
C28_AnnouncedOnce ==
    [][/\ \A s \in Sales : was_announced[s] => was_announced'[s]
       /\ \A s \in Sales : Marked(s) =>
              /\ announcement_date[s] <= now
              /\ \E t \in Tasks :
                     /\ task[t].pc = "write" /\ task[t].all_users # {}
                     /\ {row.email : row \in {x \in csv_files'[task[t].file] : x.sale = s}}
                            = task[t].all_users
       /\ \A s \in Sales : Cardinality(FilesOf(csv_files', s)) <= 1]_vars

====
